---- MODULE Spec2Model ----
(***************************************************************************)
(* A model of the ubuntu-cdimage build-and-publish pipeline:               *)
(*   - the daily publish tree of one target (lib/cdimage/tree.py:          *)
(*     DailyTreePublisher.publish, mark_current, purge);                   *)
(*   - the live-build coordinator (lib/cdimage/livefs.py: run_live_builds);*)
(*   - the locked build cycle (lib/cdimage/build.py: build_image_set).     *)
(* Each part has its own specifications (Spec, SpecCurrent, SpecPublish;   *)
(* SpecLive, SpecLiveFair; SpecCycle, SpecBuild; SpecDownload) over the    *)
(* same variables; a specification holds the variables of the other parts  *)
(* at their initial values.                                                *)
(***************************************************************************)
EXTENDS Integers, Sequences, FiniteSets, TLC

VARIABLES
    tree,       \* the publish base of one project/series/image-type target
    now,        \* today's date, as a day number (time.time())
    live,       \* one call of run_live_builds and the builds it watches
    lock,       \* the build-set lock file of the target
    cyc,        \* the build_image_set call of each process
    dl,         \* the staging directory and the last download into it
    pub         \* one call of publish, statement by statement

vars == <<tree, now, live, lock, cyc, dl, pub>>

----------------------------------------------------------------------------
(* Bounds of the model.                                                    *)

\* Build ids are day numbers 1..MaxDate ("20130320" is one of them).
MaxDate == 2
\* The largest value a line of etc/purge-days or etc/purge-count holds.
MaxPurge == 2

----------------------------------------------------------------------------
(* The publish tree.                                                       *)

Arches == {"amd64", "i386"}
\* The architectures whose builds come with a .list file.
ListArches == {"amd64"}
Dates == 1..MaxDate
\* The clock runs one day past the last build id.
LastDay == MaxDate + 1
\* No date: a symlink or a directory entry that does not exist.
NoDate == 0
\* Python's None, where the other values are numbers.
None == -1
\* The files published per architecture: <series>-<type>-<arch>.iso is the
\* image (the only kind Tree.manifest_file_allowed accepts here), and
\* <series>-<type>-<arch>.list is a file with the same basename.
Exts == {"iso", "list"}
Files == [arch : Arches, ext : Exts]
NoLinks == [f \in Files |-> NoDate]

\* The publish base before the first build: no generation, no pointer.
\*   dirs     the generation directories that exist
\*   files    the files of each generation directory
\*   marked   the lines of <date>/.marked_good, as a count per image name
\*   pending  the target of the 'pending' symlink, or NoDate
\*   manual   the target of the 'manual' symlink, or NoDate
\*   kind     the form of 'current': "none", "link" (pure), "dir" (mixed)
\*   target   the target of 'current' when it is a symlink
\*   links    the per-file symlinks ../<date>/<name> of a mixed 'current'
EmptyTree ==
    [dirs |-> {}, files |-> [d \in Dates |-> {}],
     marked |-> [d \in Dates |-> [f \in Files |-> 0]],
     pending |-> NoDate, manual |-> NoDate,
     kind |-> "none", target |-> NoDate, links |-> NoLinks]

\* osextras.listdir_force(publish_base/date): empty when the directory is
\* missing.
listdir_force(t, date) == IF date \in t.dirs THEN t.files[date] ELSE {}

\* published_images(date): the images of the configured series in a
\* generation directory.
published_images(t, date) == {f \in listdir_force(t, date) : f.ext = "iso"}

\* published_images("current"): through a symlink 'current' it lists the
\* target generation; in a mixed directory an entry counts when os.stat,
\* which follows the per-file symlink, finds a regular file.
published_images_current(t) ==
    CASE t.kind = "link" -> published_images(t, t.target)
      [] t.kind = "dir" ->
            {f \in Files : /\ f.ext = "iso"
                           /\ t.links[f] # NoDate
                           /\ f \in listdir_force(t, t.links[f])}
      [] OTHER -> {}

\* The map "existing" of mark_current before the request is applied: image
\* name -> generation date, NoDate for a name that is not in the map.
existing_map(t) ==
    LET cur == published_images_current(t) IN
    [f \in Files |->
        IF f \in cur
        THEN (IF t.kind = "link" THEN t.target ELSE t.links[f])
        ELSE NoDate]

\* image_base.endswith("-%s" % arch) for some arch of the request.
matches(image, arches) == image.arch \in arches

\* The images mark_current moves to `date`: available there and matching a
\* requested architecture.
changed_images(t, date, arches) ==
    {f \in published_images(t, date) : matches(f, arches)}

\* A faulty variant of updated_map that gives the new date to every image
\* available at the date, requested or not.
updated_map_for_every_arch(t, date, arches) ==
    LET existing == existing_map(t)
        changed == published_images(t, date) IN
    [f \in Files |-> IF f \in changed THEN date ELSE existing[f]]

\* "existing" after "Update the map according to this request".
updated_map(t, date, arches) ==
    LET existing == existing_map(t)
        changed == changed_images(t, date, arches) IN
    [f \in Files |-> IF f \in changed THEN date ELSE existing[f]]

MapKeys(m) == {f \in Files : m[f] # NoDate}
MapDates(m) == {m[f] : f \in MapKeys(m)}

\* A faulty variant of marked_good that appends a line for every image of the
\* date without looking for the line first.
marked_good_always_appends(lines, existing, date) ==
    [f \in Files |-> IF existing[f] = date THEN lines[f] + 1 ELSE lines[f]]

\* "Update the list of tested images": a line is appended to
\* <date>/.marked_good for every image mapped to date that has no line yet.
marked_good(lines, existing, date) ==
    [f \in Files |->
        IF existing[f] = date /\ lines[f] = 0 THEN 1 ELSE lines[f]]

\* A faulty variant of consistent_and_complete that compares the map with the
\* images of 'current' in place of the images available at the date.
consistent_with_current(t, date, existing) ==
    /\ MapKeys(existing) = published_images_current(t)
    /\ MapDates(existing) = {date}

\* "Everything is consistent and complete."
consistent_and_complete(t, date, existing) ==
    /\ MapKeys(existing) = published_images(t, date)
    /\ MapDates(existing) = {date}

\* The symlinks of the mixed 'current' directory after the loop
\* "for image in changed": every entry of existing[image]'s generation with
\* image's basename is linked to that generation; other entries stay.
mixed_links(t, existing, changed, base) ==
    [e \in Files |->
        IF \E image \in changed :
              /\ image.arch = e.arch
              /\ e \in listdir_force(t, existing[image])
        THEN existing[CHOOSE image \in changed :
                          /\ image.arch = e.arch
                          /\ e \in listdir_force(t, existing[image])]
        ELSE base[e]]

\* open(<date>/.marked_good, "a+") raises when the generation is missing.
mark_current_raises(t, date) == date \notin t.dirs

\* DailyTreePublisher.mark_current(date, arches).
mark_current(t, date, arches) ==
    IF mark_current_raises(t, date) THEN t
    ELSE
    LET existing == updated_map(t, date, arches)
        t1 == [t EXCEPT !.marked[date] = marked_good(@, existing, date)]
    IN  IF consistent_and_complete(t, date, existing)
        THEN \* rmtree a mixed directory, then link(date, "current")
             [t1 EXCEPT !.kind = "link", !.target = date, !.links = NoLinks]
        ELSE LET fresh == t.kind # "dir"  \* unlinked or missing: mkdir
                 changed == IF fresh THEN MapKeys(existing)
                            ELSE changed_images(t, date, arches)
                 base == IF fresh THEN NoLinks ELSE t.links
             IN  [t1 EXCEPT !.kind = "dir", !.target = NoDate,
                            !.links = mixed_links(t, existing, changed, base)]

\* DailyTreePublisher.link(date, name) for name = "pending".
link_pending(t, date) == [t EXCEPT !.pending = date]

\* The names new_publish_dir hard-links into the new generation: those of
\* the first of 'pending', 'current' that exists (os.path.exists follows
\* the symlink, so a dangling pointer does not exist).
previous_files(t) ==
    IF t.pending # NoDate /\ t.pending \in t.dirs THEN t.files[t.pending]
    ELSE IF t.kind = "link" /\ t.target \in t.dirs THEN t.files[t.target]
    ELSE IF t.kind = "dir"
         THEN {f \in Files : /\ t.links[f] # NoDate
                             /\ f \in listdir_force(t, t.links[f])}
    ELSE {}

\* new_publish_dir(date); nocopy is config["CDIMAGE_NOCOPY"].
new_publish_dir(t, date, nocopy) ==
    [t EXCEPT !.dirs = @ \cup {date},
              !.files[date] = IF nocopy THEN @ ELSE @ \cup previous_files(t)]

\* publish_binary(publish_type, arch, date). built: the scratch directory
\* holds an image for arch; haslist: it also holds its .list file. With no
\* image, every file of arch carried over into the generation is unlinked.
publish_binary(t, date, arch, built, haslist) ==
    IF ~built
    THEN [t EXCEPT !.files[date] = {f \in @ : f.arch # arch}]
    ELSE [t EXCEPT !.files[date] =
            @ \cup {[arch |-> arch, ext |-> "iso"]}
              \cup (IF haslist THEN {[arch |-> arch, ext |-> "list"]} ELSE {})]

\* "for arch in self.config.arches: published.extend(publish_binary(...))"
RECURSIVE publish_arches(_, _, _, _, _)
publish_arches(t, date, arches, built, lists) ==
    IF arches = {} THEN t
    ELSE LET arch == CHOOSE a \in arches : TRUE IN
         publish_arches(
             publish_binary(t, date, arch, arch \in built, arch \in lists),
             date, arches \ {arch}, built, lists)

\* A faulty variant of current_arches that takes every architecture of the
\* request, trigger or not.
current_arches_ignores_triggers(arches, triggers) == arches

\* current_arches of publish: the architectures of the request that
\* production/current-triggers does not list (current_uses_trigger).
current_arches(arches, triggers) == arches \ triggers

\* A faulty variant of publish that goes on to the pointers when nothing
\* was published.
publish_without_return(t, date, arches, built, lists, source, triggers, nocopy) ==
    LET t1 == new_publish_dir(t, date, nocopy)
        t2 == publish_arches(t1, date, arches, built, lists)
        t3 == link_pending(t2, date)
    IN  IF current_arches(arches, triggers) # {}
        THEN mark_current(t3, date, current_arches(arches, triggers))
        ELSE t3

\* DailyTreePublisher.publish(date). arches is config.arches, built the
\* architectures with an image in scratch, lists those with a .list file,
\* source whether publish_source published a source image, triggers the
\* trigger-controlled architectures.
publish(t, date, arches, built, lists, source, triggers, nocopy) ==
    LET t1 == new_publish_dir(t, date, nocopy)
        t2 == publish_arches(t1, date, arches, built, lists)
        published == built # {} \/ source
    IN  IF ~published THEN t2     \* "No images produced!"
        ELSE LET t3 == link_pending(t2, date) IN
             IF current_arches(arches, triggers) # {}
             THEN mark_current(t3, date, current_arches(arches, triggers))
             ELSE t3

\* What polish_directory writes into a generation, in the order in which
\* it writes: the checksum files, the web indices, .publish_info.
Polish == <<"checksums", "web_indices", "publish_info">>

\* One call of publish(date), statement by statement.
\*   pc        "idle" between two calls, then the statement that is next:
\*             "publish_binary", "polish_directory", "link", "mark_current"
\*   date, arches, built, lists, source, triggers   as for publish
\*   polished  for each generation how many parts of Polish
\*             polish_directory has written into it
\*   raised    whether the last call ended with an exception
PubOff ==
    [pc |-> "idle", date |-> NoDate, arches |-> {}, built |-> {},
     lists |-> {}, source |-> FALSE, triggers |-> {},
     polished |-> [d \in Dates |-> 0], raised |-> FALSE]

\* A faulty variant of publish_step that switches 'pending' before
\* polish_directory runs.
publish_step_links_first(pb, t, parts) ==
    CASE pb.pc = "publish_binary" ->
            [tree |-> publish_arches(t, pb.date, pb.arches, pb.built,
                                     pb.lists),
             pub |-> [pb EXCEPT !.pc = IF pb.built # {} \/ pb.source
                                       THEN "link" ELSE "idle"]]
      [] pb.pc = "link" ->
            [tree |-> link_pending(t, pb.date),
             pub |-> [pb EXCEPT !.pc = "polish_directory"]]
      [] pb.pc = "polish_directory" ->
            [tree |-> t,
             pub |-> [pb EXCEPT !.polished[pb.date] = parts,
                                !.raised = parts < Len(Polish),
                                !.pc = IF parts < Len(Polish) THEN "idle"
                                       ELSE "mark_current"]]
      [] OTHER ->
            [tree |-> IF current_arches(pb.arches, pb.triggers) # {}
                      THEN mark_current(
                               t, pb.date,
                               current_arches(pb.arches, pb.triggers))
                      ELSE t,
             pub |-> [pb EXCEPT !.pc = "idle"]]

\* The statement of publish(date) that is next, after new_publish_dir;
\* parts is how far polish_directory gets before it raises, Len(Polish)
\* when it does not raise.
publish_step(pb, t, parts) ==
    CASE pb.pc = "publish_binary" ->
            [tree |-> publish_arches(t, pb.date, pb.arches, pb.built,
                                     pb.lists),
             pub |-> [pb EXCEPT !.pc = IF pb.built # {} \/ pb.source
                                       THEN "polish_directory"
                                       ELSE "idle"]]  \* "No images produced!"
      [] pb.pc = "polish_directory" ->
            [tree |-> t,
             pub |-> [pb EXCEPT !.polished[pb.date] = parts,
                                !.raised = parts < Len(Polish),
                                !.pc = IF parts < Len(Polish) THEN "idle"
                                       ELSE "link"]]
      [] pb.pc = "link" ->
            [tree |-> link_pending(t, pb.date),
             pub |-> [pb EXCEPT !.pc = "mark_current"]]
      [] OTHER ->
            [tree |-> IF current_arches(pb.arches, pb.triggers) # {}
                      THEN mark_current(
                               t, pb.date,
                               current_arches(pb.arches, pb.triggers))
                      ELSE t,
             pub |-> [pb EXCEPT !.pc = "idle"]]

----------------------------------------------------------------------------
(* Retention.                                                              *)

\* get_purge_data returns None when the file has no line for the key.
PurgeKeys == {"project", "project/image_type", "image_type"}
PurgeValues == {None} \cup (0..MaxPurge)
PurgeTables == [PurgeKeys -> PurgeValues]

\* get_purge_data(key, purge_type) on the table of one file.
get_purge_data(table, key) == table[key]

\* A faulty variant of purge_lookup that goes on to the next key on a value
\* of 0 as it does on None.
purge_lookup_skips_zero(table) ==
    LET v1 == get_purge_data(table, "project")
        v2 == IF v1 \in {None, 0}
              THEN get_purge_data(table, "project/image_type")
              ELSE v1
    IN  IF v2 \in {None, 0} THEN get_purge_data(table, "image_type") ELSE v2

\* The fallback of purge: project, then project/image_type, then image_type,
\* each consulted only while the value is still None.
purge_lookup(table) ==
    LET v1 == get_purge_data(table, "project")
        v2 == IF v1 = None THEN get_purge_data(table, "project/image_type")
              ELSE v1
    IN  IF v2 = None THEN get_purge_data(table, "image_type") ELSE v2

\* Python truth of an int-or-None: "if days", "if count".
truthy(v) == v # None /\ v # 0

\* A faulty variant of purge_raises that tests "is not None" in place of the
\* truth value, so that a policy of 0 counts as one.
purge_raises_not_None(days, count) == days # None /\ count # None

\* "Both purge-days and purge-count are defined".
purge_raises(days, count) == truthy(days) /\ truthy(count)

\* A faulty variant of referenced that forgets the 'manual' symlink.
referenced_without_manual(t, entry) ==
    \/ t.pending = entry
    \/ t.kind = "link" /\ t.target = entry
    \/ t.kind = "dir" /\ \E f \in Files : t.links[f] = entry

\* A faulty variant of referenced that looks at 'current' only when it is a
\* symlink and never inside a mixed directory.
referenced_symlinks_only(t, entry) ==
    \/ t.pending = entry
    \/ t.kind = "link" /\ t.target = entry
    \/ t.manual = entry

\* "Pointed to by "pending" or "current" symlink?", the links of a mixed
\* 'current' directory, and the 'manual' symlink.
referenced(t, entry) ==
    \/ t.pending = entry
    \/ t.kind = "link" /\ t.target = entry
    \/ t.kind = "dir" /\ \E f \in Files : t.links[f] = entry
    \/ t.manual = entry

\* image_count when the loop over sorted(listdir, reverse=True) is at entry.
image_count(t, entry) == Cardinality({d \in t.dirs : d >= entry})

\* A faulty variant of within_policy whose age test is off by one day: a
\* generation dated on the cut-off date is taken for too old.
within_policy_cutoff_excluded(t, entry, days, count, today) ==
    /\ (~truthy(days) \/ today - days < entry)
    /\ (~truthy(count) \/ image_count(t, entry) <= count)

\* A faulty variant of within_policy that counts the generations from the
\* oldest, so that the count policy keeps the oldest ones.
within_policy_counts_oldest(t, entry, days, count, today) ==
    /\ (~truthy(days) \/ today - days <= entry)
    /\ (~truthy(count)
          \/ Cardinality({d \in t.dirs : d <= entry}) <= count)

\* "Older than cut-off date? Did we leave enough images already?": the
\* entry is kept by the policy itself.
within_policy(t, entry, days, count, today) ==
    /\ (~truthy(days) \/ today - days <= entry)
    /\ (~truthy(count) \/ image_count(t, entry) <= count)

to_purge(t, days, count, today) ==
    {entry \in t.dirs : /\ ~within_policy(t, entry, days, count, today)
                        /\ ~referenced(t, entry)}

\* shutil.rmtree of every entry of to_purge.
rmtree(t, entries) ==
    [t EXCEPT !.dirs = @ \ entries,
              !.files = [d \in Dates |-> IF d \in entries THEN {} ELSE @[d]],
              !.marked = [d \in Dates |->
                            IF d \in entries THEN [f \in Files |-> 0]
                            ELSE @[d]]]

\* DailyTreePublisher.purge() with days and count as looked up, today the
\* current date and nopurge config["DEBUG"] or config["CDIMAGE_NOPURGE"].
purge(t, days, count, today, nopurge) ==
    IF ~truthy(days) /\ ~truthy(count) THEN t     \* "Not purging images"
    ELSE IF purge_raises(days, count) THEN t      \* raise Exception
    ELSE IF nopurge THEN t                        \* "Would purge"
    ELSE rmtree(t, to_purge(t, days, count, today))

----------------------------------------------------------------------------
(* The live-build coordinator: livefs.py, run_live_builds.                 *)

\* time.sleep(15) between two polls of Launchpad.
PollInterval == 15
\* log_timeout = time.time() + 300: the wait for a missing build log.
LogGrace == 300
\* The coordinator sleeps at most MaxSleeps times in a run of the model.
MaxSleeps == 22

\* config.arches, in the order of the configuration.
ArchLists == {<<>>, <<"amd64">>, <<"i386">>, <<"amd64", "i386">>}
Range(seq) == {seq[i] : i \in DOMAIN seq}
Remove(seq, x) == SelectSeq(seq, LAMBDA y : y # x)

\* The build states in which the coordinator keeps waiting.
InProgress == {"Needs building", "Currently building",
               "Gathering build output", "Uploading build"}
\* A Launchpad build: its buildstate and whether build_log_url is set.
NoBuild == [buildstate |-> "none", build_log_url |-> FALSE]

\* The state of run_live_builds as it is called.
\*   arches   config.arches
\*   farm     the architectures get_lp_livefs finds a Launchpad livefs for
\*   reuse    config["CDIMAGE_REUSE_BUILD"]
\*   history  the farm architectures with a "Successfully built" build in
\*            lp_livefs.builds
\*   pc       "dispatch", "while", "sleep", and when it is over "returned",
\*            "LiveBuildsFailed" or "Exception"
\*   todo     the architectures the first loop has still to start
\*   builds   the local builds being watched, in the order of the dict
\*   lp_builds  the Launchpad builds being watched, with their log_timeout
\*   successful_builds  the keys of the dict returned, in insertion order
\*   finished   the calls of live_build_finished per architecture
\*   notified   the calls of live_build_notify_failure per architecture
\*   requested  the architectures lp_livefs.requestBuild was called for
\*   proc     each local process: "none", "running", "exit0", "exit1"
\*   lp       each Launchpad build
\*   clock    time.time(), in seconds since the call
LiveStart(arches, farm, reuse, history) ==
    [arches |-> arches, farm |-> farm, reuse |-> reuse, history |-> history,
     pc |-> IF arches = <<>> THEN "while" ELSE "dispatch",
     todo |-> arches, builds |-> <<>>, lp_builds |-> <<>>,
     successful_builds |-> <<>>,
     finished |-> [a \in Arches |-> 0],
     notified |-> [a \in Arches |-> 0],
     requested |-> {},
     proc |-> [a \in Arches |-> "none"],
     lp |-> [a \in Arches |-> NoBuild],
     clock |-> 0]

\* No call of run_live_builds.
LiveOff == LiveStart(<<>>, {}, FALSE, {})

\* A faulty variant of dispatch that requests a build when the history has
\* none to reuse.
dispatch_requests_without_match(l, arch) ==
    LET rest == [l EXCEPT !.todo = Tail(@),
                          !.pc = IF Tail(l.todo) = <<>> THEN "while"
                                 ELSE "dispatch"]
        item == [arch |-> arch, log_timeout |-> None]
    IN  IF arch \in l.farm
        THEN IF l.reuse /\ arch \in l.history
             THEN [rest EXCEPT
                     !.lp[arch] = [buildstate |-> "Successfully built",
                                   build_log_url |-> TRUE],
                     !.lp_builds = Append(@, item)]
             ELSE [rest EXCEPT
                     !.lp[arch] = [buildstate |-> "Needs building",
                                   build_log_url |-> FALSE],
                     !.requested = @ \cup {arch},
                     !.lp_builds = Append(@, item)]
        ELSE [rest EXCEPT !.proc[arch] = "running",
                          !.builds = Append(@, arch)]

\* The body of the first loop for one architecture: reuse a build of the
\* history, request one from Launchpad, or start a local process.
dispatch(l, arch) ==
    LET rest == [l EXCEPT !.todo = Tail(@),
                          !.pc = IF Tail(l.todo) = <<>> THEN "while"
                                 ELSE "dispatch"]
        item == [arch |-> arch, log_timeout |-> None]
    IN  IF arch \in l.farm
        THEN IF l.reuse /\ arch \notin l.history
             THEN [l EXCEPT !.pc = "Exception"]   \* "no build found to reuse"
             ELSE IF l.reuse
             THEN [rest EXCEPT
                     !.lp[arch] = [buildstate |-> "Successfully built",
                                   build_log_url |-> TRUE],
                     !.lp_builds = Append(@, item)]
             ELSE [rest EXCEPT
                     !.lp[arch] = [buildstate |-> "Needs building",
                                   build_log_url |-> FALSE],
                     !.requested = @ \cup {arch},
                     !.lp_builds = Append(@, item)]
        ELSE [rest EXCEPT !.proc[arch] = "running",
                          !.builds = Append(@, arch)]

\* A faulty variant of live_build_finished that takes every finished build
\* for a success.
live_build_finished_any_status(l, arch, status) ==
    [l EXCEPT !.finished[arch] = @ + 1,
              !.successful_builds = IF arch \in Range(@) THEN @
                                    ELSE Append(@, arch)]

\* live_build_finished: a status of 0 adds the architecture to
\* successful_builds, any other status sends the failure notification.
live_build_finished(l, arch, status) ==
    IF status = 0
    THEN [l EXCEPT !.finished[arch] = @ + 1,
                   !.successful_builds = IF arch \in Range(@) THEN @
                                         ELSE Append(@, arch)]
    ELSE [l EXCEPT !.finished[arch] = @ + 1,
                   !.notified[arch] = @ + 1]

\* proc.poll(): None while the process runs, then its return code.
poll(l, arch) ==
    CASE l.proc[arch] = "exit0" -> 0
      [] l.proc[arch] = "exit1" -> 1
      [] OTHER -> None

\* A faulty variant of poll_builds that gives up the pass over the local
\* builds at the first one that failed.
poll_builds_stops_at_failure(l, items) ==
    IF items = <<>> THEN l
    ELSE LET arch == Head(items)
             status == poll(l, arch)
         IN  IF status = None THEN l
             ELSE IF status = 0
             THEN live_build_finished(
                      [l EXCEPT !.builds = Remove(@, arch)], arch, status)
             ELSE live_build_finished(
                      [l EXCEPT !.builds = <<>>], arch, status)

\* "Check for non-Launchpad build results": one pass over list(builds).
RECURSIVE poll_builds(_, _)
poll_builds(l, items) ==
    IF items = <<>> THEN l
    ELSE LET arch == Head(items)
             status == poll(l, arch)
         IN  IF status = None
             THEN poll_builds(l, Tail(items))
             ELSE poll_builds(
                      live_build_finished(
                          [l EXCEPT !.builds = Remove(@, arch)],
                          arch, status),
                      Tail(items))

\* A faulty variant of poll_lp_builds that sets log_timeout anew at every
\* pass.
RECURSIVE poll_lp_builds_extends_timeout(_, _, _)
poll_lp_builds_extends_timeout(l, items, pending) ==
    IF items = <<>> THEN [l EXCEPT !.lp_builds = pending]
    ELSE LET item == Head(items)
             lp_build == l.lp[item.arch]
         IN  IF lp_build.buildstate \in InProgress
             THEN poll_lp_builds_extends_timeout(
                      l, Tail(items), Append(pending, item))
             ELSE IF lp_build.buildstate = "Successfully built"
             THEN poll_lp_builds_extends_timeout(
                      live_build_finished(l, item.arch, 0),
                      Tail(items), pending)
             ELSE IF /\ ~lp_build.build_log_url
                     /\ (item.log_timeout = None
                           \/ l.clock < item.log_timeout)
             THEN poll_lp_builds_extends_timeout(
                      l, Tail(items),
                      Append(pending,
                             [item EXCEPT !.log_timeout =
                                 l.clock + LogGrace]))
             ELSE poll_lp_builds_extends_timeout(
                      live_build_finished(l, item.arch, 1),
                      Tail(items), pending)

\* A faulty variant of poll_lp_builds that waits for a missing log without
\* a timeout.
RECURSIVE poll_lp_builds_without_timeout(_, _, _)
poll_lp_builds_without_timeout(l, items, pending) ==
    IF items = <<>> THEN [l EXCEPT !.lp_builds = pending]
    ELSE LET item == Head(items)
             lp_build == l.lp[item.arch]
         IN  IF lp_build.buildstate \in InProgress
             THEN poll_lp_builds_without_timeout(
                      l, Tail(items), Append(pending, item))
             ELSE IF lp_build.buildstate = "Successfully built"
             THEN poll_lp_builds_without_timeout(
                      live_build_finished(l, item.arch, 0),
                      Tail(items), pending)
             ELSE IF ~lp_build.build_log_url
             THEN poll_lp_builds_without_timeout(
                      l, Tail(items),
                      Append(pending,
                             [item EXCEPT !.log_timeout =
                                 IF @ = None THEN l.clock + LogGrace ELSE @]))
             ELSE poll_lp_builds_without_timeout(
                      live_build_finished(l, item.arch, 1),
                      Tail(items), pending)

\* A faulty variant of poll_lp_builds that waits for the log of a build
\* that was successfully built as it does for the others.
RECURSIVE poll_lp_builds_waits_for_every_log(_, _, _)
poll_lp_builds_waits_for_every_log(l, items, pending) ==
    IF items = <<>> THEN [l EXCEPT !.lp_builds = pending]
    ELSE LET item == Head(items)
             lp_build == l.lp[item.arch]
         IN  IF lp_build.buildstate \in InProgress
             THEN poll_lp_builds_waits_for_every_log(
                      l, Tail(items), Append(pending, item))
             ELSE IF /\ ~lp_build.build_log_url
                     /\ (item.log_timeout = None
                           \/ l.clock < item.log_timeout)
             THEN poll_lp_builds_waits_for_every_log(
                      l, Tail(items),
                      Append(pending,
                             [item EXCEPT !.log_timeout =
                                 IF @ = None THEN l.clock + LogGrace ELSE @]))
             ELSE poll_lp_builds_waits_for_every_log(
                      live_build_finished(
                          l, item.arch,
                          IF lp_build.buildstate = "Successfully built"
                          THEN 0 ELSE 1),
                      Tail(items), pending)

\* "Check for Launchpad build results": one pass over lp_builds, which
\* leaves in pending what it keeps waiting for.
RECURSIVE poll_lp_builds(_, _, _)
poll_lp_builds(l, items, pending) ==
    IF items = <<>> THEN [l EXCEPT !.lp_builds = pending]
    ELSE LET item == Head(items)
             lp_build == l.lp[item.arch]
         IN  IF lp_build.buildstate \in InProgress
             THEN poll_lp_builds(l, Tail(items), Append(pending, item))
             ELSE IF lp_build.buildstate = "Successfully built"
             THEN poll_lp_builds(live_build_finished(l, item.arch, 0),
                                 Tail(items), pending)
             ELSE IF /\ ~lp_build.build_log_url
                     /\ (item.log_timeout = None
                           \/ l.clock < item.log_timeout)
             THEN poll_lp_builds(
                      l, Tail(items),
                      Append(pending,
                             [item EXCEPT !.log_timeout =
                                 IF @ = None THEN l.clock + LogGrace ELSE @]))
             ELSE poll_lp_builds(live_build_finished(l, item.arch, 1),
                                 Tail(items), pending)

\* One pass of the body of "while builds or lp_builds" up to the sleep.
poll_once(l) ==
    LET l1 == poll_builds(l, l.builds)
        l2 == poll_lp_builds(l1, l1.lp_builds, <<>>)
    IN  [l2 EXCEPT !.pc = IF l2.lp_builds # <<>> THEN "sleep" ELSE "while"]

\* A faulty variant of finish that returns the empty dict when no build
\* was asked for.
finish_empty_request_returns(l) ==
    [l EXCEPT !.pc = IF l.successful_builds = <<>> /\ l.arches # <<>>
                     THEN "LiveBuildsFailed"
                     ELSE "returned"]

\* The end of run_live_builds, once nothing is being watched.
finish(l) ==
    [l EXCEPT !.pc = IF l.successful_builds = <<>> THEN "LiveBuildsFailed"
                     ELSE "returned"]

----------------------------------------------------------------------------
(* The locked build cycle: build.py, build_image_set.                      *)

\* The processes that call build_image_set for the target, once each.
Procs == {"p1", "p2"}

\* lockfile -l 7200: a lock file older than this many seconds is forced.
LockTimeout == 7200
\* The age of the lock file is followed in steps of LockStep seconds, up to
\* MaxLockSteps steps.
LockStep == LockTimeout \div 2
MaxLockSteps == 3

\* The lock file .lock-build-image-set-<project>-<series>-<image_type>:
\* whether it exists, the process that created it, its age in seconds, and
\* whether a lock file has ever been older than LockTimeout.
NoLock == [exists |-> FALSE, owner |-> "none", age |-> 0, overrun |-> FALSE]

\* A faulty variant of stale with a limit of one step in place of
\* LockTimeout.
stale_after_a_step(lk) == lk.exists /\ lk.age >= LockStep

\* lockfile -l 7200 takes a lock file older than LockTimeout for a leftover
\* and removes it by force.
stale(lk) == lk.exists /\ lk.age > LockTimeout

\* A faulty variant of lockfile_fails in which lockfile takes the lock
\* file over whatever its age.
lockfile_never_fails(lk) == FALSE

\* lockfile -r 0 fails at once, without a retry, when the lock file exists
\* and is not stale: subprocess.check_call raises CalledProcessError.
lockfile_fails(lk) == lk.exists /\ ~stale(lk)

\* lockfile creates the lock file.
lockfile(lk, p) == [lk EXCEPT !.exists = TRUE, !.owner = p, !.age = 0]

\* osextras.unlink_force(lock_path), whoever created the file.
unlink_force(lk) == [lk EXCEPT !.exists = FALSE, !.owner = "none", !.age = 0]

\* The Python values that build_image_set_locked handles: None, a str and
\* a dict, of which only the keys are kept, in insertion order.
PyNone == [type |-> "None", str |-> "", keys |-> <<>>]
PyStr(s) == [type |-> "str", str |-> s, keys |-> <<>>]
PyDict(keys) == [type |-> "dict", str |-> "", keys |-> keys]

\* The sequences without repetition over a set.
RECURSIVE Orders(_)
Orders(S) ==
    IF S = {} THEN {<<>>}
    ELSE UNION {{<<x>> \o rest : rest \in Orders(S \ {x})} : x \in S}

\* What run_live_builds can do for the architectures asked: raise
\* LiveBuildsFailed, or return the dict of the builds that succeeded, which
\* is not empty and whose keys come in the order the builds finished.
run_live_builds(arches) ==
    {[raised |-> TRUE, value |-> PyNone]} \cup
    {[raised |-> FALSE, value |-> PyDict(keys)] :
        keys \in UNION {Orders(S) : S \in SUBSET arches \ {{}}}}

\* "live_successful, builds = run_live_builds(config)": the assignment
\* iterates over its right-hand side, for a dict over the keys, and raises
\* ValueError unless it gets two values.
unpack_raises(value) ==
    IF value.type = "dict" THEN Len(value.keys) # 2 ELSE TRUE
unpack(value) ==
    [live_successful |-> PyStr(value.keys[1]),
     builds |-> PyStr(value.keys[2])]

\* "arch in new_arches": membership of the keys for a dict, and for a str
\* the test that arch occurs in it; no name of Arches occurs in another.
arch_in(arch, new_arches) ==
    CASE new_arches.type = "dict" -> arch \in Range(new_arches.keys)
      [] new_arches.type = "str" -> arch = new_arches.str
      [] OTHER -> FALSE

\* set(arch.split("+")[0] for arch in new_arches): the iteration of a dict
\* gives its keys, the iteration of a str gives its characters, which are
\* no architecture of Arches.
new_cpuarches(new_arches) ==
    IF new_arches.type = "dict" THEN Range(new_arches.keys) ELSE {}

\* Config.limit_arches
limit_arches(config, new_arches) ==
    [config EXCEPT
        !.ARCHES = {arch \in @ : arch_in(arch, new_arches)},
        !.CPUARCHES = {cpuarch \in @ : cpuarch \in new_cpuarches(new_arches)}]

\* download_live_filesystems(config, builds) starts with builds.items(),
\* which raises AttributeError for anything but a dict.
download_raises(builds) == builds.type # "dict"

\* The artifacts of a live filesystem build are numbered 1..MaxFiles, in the
\* order of lp_build.getFileUrls().
MaxFiles == 2
\* The files of the staging directory scratch/.../live: <arch>.<artifact>
\* for the artifacts of the builds, and with n = 0 a file of another
\* origin, such as the .list that build_ubuntu_defaults_locale writes.
StageFiles == [arch : Arches, n : 0..MaxFiles]
\* For each architecture the artifact whose fetch raises FetchError, 0 when
\* every fetch succeeds.
FetchOutcomes == [Arches -> 0..MaxFiles]

\* osextras.mkemptydir(output_dir): the directory is removed with what it
\* holds and made again.
mkemptydir(dir) == {}

\* download_livefs_artifacts(config, arch, lp_build, output_dir): the
\* artifacts are fetched in order, up to the first fetch that raises.
download_livefs_artifacts(arch, failing) ==
    [raised |-> failing # 0,
     files |-> {[arch |-> arch, n |-> n] :
                   n \in IF failing = 0 THEN 1..MaxFiles
                         ELSE 1..(failing - 1)}]

\* The staging directory and one call of download_live_filesystems.
\*   dir       the files of the staging directory
\*   asked     the keys of builds, in the order of the dict
\*   fetched   the files written by the call
\*   notified  the calls of live_build_notify_download_failure per
\*             architecture
\*   successful_builds  the keys of the dict returned, in insertion order
\*   error     the exception the call raised, or "none"
DlStart(dir) ==
    [dir |-> dir, asked |-> <<>>, fetched |-> {},
     notified |-> [a \in Arches |-> 0],
     successful_builds |-> <<>>, error |-> "none"]

\* No call yet, and no staging directory.
DlOff == DlStart({})

\* A faulty variant of download_arch in which a FetchError ends the loop
\* over the builds: the architectures after it are not downloaded.
download_arch_aborts(d, arch, fails) ==
    LET got == download_livefs_artifacts(arch, fails[arch])
        d1 == [d EXCEPT !.dir = @ \cup got.files,
                        !.fetched = @ \cup got.files]
    IN  IF d.error # "none" THEN d
        ELSE IF got.raised
        THEN [d1 EXCEPT !.notified[arch] = @ + 1, !.error = "FetchError"]
        ELSE [d1 EXCEPT !.successful_builds = Append(@, arch)]

\* The body of "for arch, build in builds.items()": a FetchError is
\* notified and the loop goes on with the next architecture.
download_arch(d, arch, fails) ==
    LET got == download_livefs_artifacts(arch, fails[arch])
        d1 == [d EXCEPT !.dir = @ \cup got.files,
                        !.fetched = @ \cup got.files]
    IN  IF got.raised
        THEN [d1 EXCEPT !.notified[arch] = @ + 1]
        ELSE [d1 EXCEPT !.successful_builds = Append(@, arch)]

RECURSIVE download_builds(_, _, _)
download_builds(d, items, fails) ==
    IF items = <<>> THEN d
    ELSE download_builds(download_arch(d, Head(items), fails),
                         Tail(items), fails)

\* A faulty variant of download_live_filesystems that downloads into the
\* staging directory as it finds it.
download_live_filesystems_merges(dir, builds, fails) ==
    LET d == DlStart(dir) IN
    IF download_raises(builds) THEN [d EXCEPT !.error = "AttributeError"]
    ELSE download_builds([d EXCEPT !.asked = builds.keys],
                         builds.keys, fails)

\* download_live_filesystems(config, builds), with
\* CDIMAGE_LOCAL_LIVEFS_ARTIFACTS unset: the staging directory is emptied,
\* then builds.items() raises for anything but a dict.
download_live_filesystems(dir, builds, fails) ==
    LET d == DlStart(mkemptydir(dir)) IN
    IF download_raises(builds) THEN [d EXCEPT !.error = "AttributeError"]
    ELSE download_builds([d EXCEPT !.asked = builds.keys],
                         builds.keys, fails)

\* One call of build_image_set.
\*   pc       "start" ("absent" for a process that makes no call); inside
\*            the lock "live", "stage", "publish", "purge",
\*            "release"; then "returned", "interrupted" (KeyboardInterrupt
\*            went through), "killed" (the signal was sent again), or
\*            "raised" when the lock was held
\*   held     whether the lock file existed when lockfile ran
\*   date     config["CDIMAGE_DATE"], the build id
\*   live     want_live_builds(options)
\*   download whether the cycle downloads live filesystems:
\*            is_live_fs_only(config) or config["CDIMAGE_LIVE"]
\*   ARCHES, CPUARCHES   the configuration
\*   successful  the keys of the dict run_live_builds returned
\*   builds   the local variable builds
\*   error    the exception raised inside build_image_set_locked, or "none"
\*   notified the calls of notify_failure
\*   result   what build_image_set_locked returned: "True", "False", "none"
CycStart ==
    [pc |-> "start", held |-> FALSE, date |-> NoDate, live |-> FALSE,
     download |-> FALSE, ARCHES |-> {}, CPUARCHES |-> {},
     successful |-> <<>>, builds |-> PyNone, error |-> "none",
     notified |-> 0, result |-> "none"]

\* What a call of build_image_set is given: options.live
\* (want_live_builds) and whether the configuration makes the cycle download
\* live filesystems.
Options == [live : BOOLEAN, download : BOOLEAN]

\* No call; serial is the last build id next_build_id gave out, options
\* the options and configurations the calls are made with.
CycOff ==
    [serial |-> 0, options |-> Options, of |-> [p \in Procs |-> CycStart]]

\* A faulty variant of failed that sends notify_failure for LiveBuildsFailed
\* as well.
failed_always_notifies(c, e) ==
    [c EXCEPT !.error = e, !.result = "False", !.pc = "release",
              !.notified = @ + 1]

\* "except Exception as e": notify_failure unless e is LiveBuildsFailed,
\* and return False; the lock is released on the way out.
failed(c, e) ==
    [c EXCEPT !.error = e, !.result = "False", !.pc = "release",
              !.notified = IF e = "LiveBuildsFailed" THEN @ ELSE @ + 1]

\* The exceptions "except Exception" lets through: KeyboardInterrupt, and
\* the SignalExit (a SystemExit) that the handler of handle_signals raises
\* on SIGQUIT and SIGTERM.
Escaping == {"KeyboardInterrupt", "SignalExit"}

\* A faulty variant of escaped in which the exception ends the process
\* without running the finally clause of lock_build_image_set.
escaped_without_finally(c, e) ==
    [c EXCEPT !.error = e,
              !.pc = IF e = "SignalExit" THEN "killed" ELSE "interrupted"]

\* An exception of Escaping leaves build_image_set_locked: no notification,
\* no result, and the finally clause of lock_build_image_set is next.
escaped(c, e) == [c EXCEPT !.error = e, !.pc = "release"]

\* How build_image_set ends after the lock is released: handle_signals sends
\* the signal again with the old handlers, KeyboardInterrupt goes on to the
\* caller, and otherwise the result of build_image_set_locked is returned.
exit_of(c) ==
    CASE c.error = "SignalExit" -> "killed"
      [] c.error = "KeyboardInterrupt" -> "interrupted"
      [] OTHER -> "returned"

\* build_image_set_locked from run_live_builds to limit_arches, for one
\* outcome of run_live_builds.
live_builds(c, outcome) ==
    IF ~c.live THEN [c EXCEPT !.pc = "stage"]
    ELSE IF outcome.raised THEN failed(c, "LiveBuildsFailed")
    ELSE LET c1 == [c EXCEPT !.successful = outcome.value.keys] IN
         IF unpack_raises(outcome.value) THEN failed(c1, "ValueError")
         ELSE LET got == unpack(outcome.value) IN
              [limit_arches(c1, got.live_successful)
                  EXCEPT !.builds = got.builds, !.pc = "stage"]

\* build_image_set_locked from build_britney to fix_permissions, of which
\* the download of the live filesystems is kept; d is what
\* download_live_filesystems(config, builds) did. What it returns is
\* dropped, and config.arches stays as limit_arches left it.
stage(c, d) ==
    IF c.download /\ d.error # "none" THEN failed(c, d.error)
    ELSE [c EXCEPT !.pc = "publish"]

----------------------------------------------------------------------------
(* The operations on the publish tree as actions.                          *)

TreeInit ==
    /\ tree = EmptyTree
    /\ now = 1

\* A day passes.
NewDay ==
    /\ now < LastDay
    /\ now' = now + 1
    /\ UNCHANGED <<tree, live, lock, cyc, dl, pub>>

\* publisher.publish(date) with the build id of today; build ids are fresh.
\* The builds of the architectures of withLists may come with a .list.
PublishImages(withLists) ==
    /\ now \in Dates
    /\ now \notin tree.dirs
    /\ \E arches \in SUBSET Arches \ {{}}, source, nocopy \in BOOLEAN,
          triggers \in SUBSET Arches :
         \E built \in SUBSET arches :
           \E lists \in SUBSET (built \cap withLists) :
             tree' = publish(tree, now, arches, built, lists, source,
                             triggers, nocopy)
    /\ UNCHANGED <<now, live, lock, cyc, dl, pub>>

\* A publish of images alone, and one of images and .list files.
Publish == PublishImages({})
PublishSiblings == PublishImages(ListArches)

\* Tree.mark_current_trigger: mark-current -a ARCH BUILD-ID from outside.
MarkCurrentTrigger ==
    /\ \E date \in Dates, arch \in Arches :
         tree' = mark_current(tree, date, {arch})
    /\ UNCHANGED <<now, live, lock, cyc, dl, pub>>

\* The values the lookup of purge can yield from a table.
LookedUp == {purge_lookup(table) : table \in PurgeTables}

\* publisher.purge() under the tables of etc/purge-days and etc/purge-count.
Purge ==
    /\ \E days, count \in LookedUp, nopurge \in BOOLEAN :
         tree' = purge(tree, days, count, now, nopurge)
    /\ UNCHANGED <<now, live, lock, cyc, dl, pub>>

\* An operator points the 'manual' symlink at a generation, or removes it.
SetManual ==
    /\ \E d \in tree.dirs \cup {NoDate} :
         /\ d # tree.manual
         /\ tree' = [tree EXCEPT !.manual = d]
    /\ UNCHANGED <<now, live, lock, cyc, dl, pub>>

\* publish(date) is called: new_publish_dir(date).
PublishCalled ==
    /\ pub.pc = "idle"
    /\ now \in Dates
    /\ now \notin tree.dirs
    /\ \E arches \in SUBSET Arches \ {{}}, source, nocopy \in BOOLEAN,
          triggers \in SUBSET Arches :
         \E built \in SUBSET arches :
           /\ tree' = new_publish_dir(tree, now, nocopy)
           /\ pub' = [pub EXCEPT
                         !.pc = "publish_binary", !.date = now,
                         !.arches = arches, !.built = built,
                         !.source = source, !.triggers = triggers,
                         !.raised = FALSE]
    /\ UNCHANGED <<now, live, lock, cyc, dl>>

\* The next statement of the publish(date) that is running.
PublishStep_(pc) ==
    /\ pub.pc = pc
    /\ \E parts \in 0..Len(Polish) :
         LET next == publish_step(pub, tree, parts) IN
         /\ tree' = next.tree
         /\ pub' = next.pub
    /\ UNCHANGED <<now, live, lock, cyc, dl>>

PublishBinaries == PublishStep_("publish_binary")
PolishDirectory == PublishStep_("polish_directory")
LinkPending == PublishStep_("link")
MarkCurrent == PublishStep_("mark_current")

\* A day passes between two publishes.
NextDay ==
    /\ pub.pc = "idle"
    /\ now < LastDay
    /\ now' = now + 1
    /\ UNCHANGED <<tree, live, lock, cyc, dl, pub>>

PublishNext ==
    PublishCalled \/ PublishBinaries \/ PolishDirectory \/ LinkPending
        \/ MarkCurrent \/ NextDay

\* The retention view: images, pointers and purges.
TreeNext == NewDay \/ Publish \/ MarkCurrentTrigger \/ Purge \/ SetManual

\* The view of 'current': images with their .list files, and purges.
CurrentNext == NewDay \/ PublishSiblings \/ MarkCurrentTrigger \/ Purge

----------------------------------------------------------------------------
(* run_live_builds and the builds it watches, as actions.                  *)

LiveInit ==
    \E arches \in ArchLists, reuse \in BOOLEAN :
      \E farm \in SUBSET Range(arches) :
        \E history \in SUBSET farm :
          live = LiveStart(arches, farm, reuse, history)

LiveRunning == live.pc \in {"dispatch", "while", "sleep"}

\* The first loop starts the build of the next architecture.
Dispatch ==
    /\ live.pc = "dispatch"
    /\ live' = dispatch(live, Head(live.todo))
    /\ UNCHANGED <<tree, now, lock, cyc, dl, pub>>

\* The poll loop looks at every build it watches.
Poll ==
    /\ live.pc = "while"
    /\ live.builds # <<>> \/ live.lp_builds # <<>>
    /\ live' = poll_once(live)
    /\ UNCHANGED <<tree, now, lock, cyc, dl, pub>>

\* time.sleep(15)
Sleep ==
    /\ live.pc = "sleep"
    /\ live.clock < MaxSleeps * PollInterval
    /\ live' = [live EXCEPT !.clock = @ + PollInterval, !.pc = "while"]
    /\ UNCHANGED <<tree, now, lock, cyc, dl, pub>>

\* The poll loop is over: return successful_builds or raise.
Finish ==
    /\ live.pc = "while"
    /\ live.builds = <<>> /\ live.lp_builds = <<>>
    /\ live' = finish(live)
    /\ UNCHANGED <<tree, now, lock, cyc, dl, pub>>

\* A local build process exits.
ProcExit ==
    /\ LiveRunning
    /\ \E arch \in Arches, status \in {"exit0", "exit1"} :
         /\ live.proc[arch] = "running"
         /\ live' = [live EXCEPT !.proc[arch] = status]
    /\ UNCHANGED <<tree, now, lock, cyc, dl, pub>>

\* A Launchpad build leaves the states in which it is in progress.
LaunchpadFinish ==
    /\ LiveRunning
    /\ \E arch \in Arches,
          state \in {"Successfully built", "Failed to build"} :
         /\ live.lp[arch].buildstate \in InProgress
         /\ live' = [live EXCEPT !.lp[arch].buildstate = state]
    /\ UNCHANGED <<tree, now, lock, cyc, dl, pub>>

\* Launchpad fetches the log of a build that is over.
LaunchpadLog ==
    /\ LiveRunning
    /\ \E arch \in Arches :
         /\ live.lp[arch].buildstate \in
                {"Successfully built", "Failed to build"}
         /\ ~live.lp[arch].build_log_url
         /\ live' = [live EXCEPT !.lp[arch].build_log_url = TRUE]
    /\ UNCHANGED <<tree, now, lock, cyc, dl, pub>>

LiveNext ==
    Dispatch \/ Poll \/ Sleep \/ Finish \/ ProcExit \/ LaunchpadFinish
        \/ LaunchpadLog

----------------------------------------------------------------------------
(* build_image_set in each process, as actions.                            *)

Inside(p) == cyc.of[p].pc \in {"live", "stage", "publish", "purge", "release"}

\* A faulty variant of BuildImageSet that runs lockfile inside the try whose
\* finally clause unlinks the lock file, so that a failed attempt removes
\* the lock of the cycle that holds it.
BuildImageSet_unlinks_on_failure(p) ==
    /\ cyc.of[p].pc = "start"
    /\ IF lockfile_fails(lock)
       THEN /\ cyc' = [cyc EXCEPT !.of[p].pc = "raised", !.of[p].held = TRUE]
            /\ lock' = unlink_force(lock)
       ELSE /\ cyc.serial < MaxDate
            /\ lock' = lockfile(lock, p)
            /\ \E opt \in cyc.options :
                 cyc' = [cyc EXCEPT
                    !.serial = @ + 1,
                    !.of[p] = [CycStart EXCEPT
                        !.pc = "live", !.held = lock.exists,
                        !.date = cyc.serial + 1,
                        !.live = opt.live, !.download = opt.download,
                        !.ARCHES = Arches, !.CPUARCHES = Arches]]
    /\ UNCHANGED <<tree, now, live, dl, pub>>

\* build_image_set up to next_build_id: lockfile fails and the call raises,
\* or the process enters the cycle with a fresh build id.
BuildImageSet(p) ==
    /\ cyc.of[p].pc = "start"
    /\ IF lockfile_fails(lock)
       THEN /\ cyc' = [cyc EXCEPT !.of[p].pc = "raised", !.of[p].held = TRUE]
            /\ UNCHANGED lock
       ELSE /\ cyc.serial < MaxDate
            /\ lock' = lockfile(lock, p)
            /\ \E opt \in cyc.options :
                 cyc' = [cyc EXCEPT
                    !.serial = @ + 1,
                    !.of[p] = [CycStart EXCEPT
                        !.pc = "live", !.held = lock.exists,
                        !.date = cyc.serial + 1,
                        !.live = opt.live, !.download = opt.download,
                        !.ARCHES = Arches, !.CPUARCHES = Arches]]
    /\ UNCHANGED <<tree, now, live, dl, pub>>

\* "Building live filesystems"
LiveBuilds(p) ==
    /\ cyc.of[p].pc = "live"
    /\ \E outcome \in run_live_builds(cyc.of[p].ARCHES) :
         cyc' = [cyc EXCEPT !.of[p] = live_builds(@, outcome)]
    /\ UNCHANGED <<tree, now, live, lock, dl, pub>>

\* The stages between the live builds and the publishing.
Stage(p) ==
    /\ cyc.of[p].pc = "stage"
    /\ \E fails \in FetchOutcomes :
         LET d == download_live_filesystems(dl.dir, cyc.of[p].builds, fails)
         IN  /\ cyc' = [cyc EXCEPT !.of[p] = stage(@, d)]
             /\ dl' = IF cyc.of[p].download THEN d ELSE dl
    /\ UNCHANGED <<tree, now, live, lock, pub>>

\* "Publishing": publisher.publish(date) for the images debian-cd built.
PublishStep(p) ==
    /\ cyc.of[p].pc = "publish"
    /\ \E built \in SUBSET cyc.of[p].ARCHES, triggers \in {{}, {"i386"}} :
         tree' = publish(tree, cyc.of[p].date, cyc.of[p].ARCHES, built,
                         built \cap ListArches, FALSE, triggers, FALSE)
    /\ cyc' = [cyc EXCEPT !.of[p].pc = "purge"]
    /\ UNCHANGED <<now, live, lock, dl, pub>>

\* "Purging old images": publisher.purge(), which may raise.
PurgeStep(p) ==
    /\ cyc.of[p].pc = "purge"
    /\ \E days, count \in LookedUp :
         /\ tree' = purge(tree, days, count, cyc.of[p].date, FALSE)
         /\ cyc' = [cyc EXCEPT !.of[p] =
                IF purge_raises(days, count) THEN failed(@, "Exception")
                ELSE [@ EXCEPT !.result = "True", !.pc = "release"]]
    /\ UNCHANGED <<now, live, lock, dl, pub>>

\* KeyboardInterrupt, SIGQUIT or SIGTERM while build_image_set_locked runs.
Escape(p) ==
    /\ cyc.of[p].pc \in {"live", "stage", "publish", "purge"}
    /\ \E e \in Escaping : cyc' = [cyc EXCEPT !.of[p] = escaped(@, e)]
    /\ UNCHANGED <<tree, now, live, lock, dl, pub>>

\* The finally clause of lock_build_image_set.
Release(p) ==
    /\ cyc.of[p].pc = "release"
    /\ lock' = unlink_force(lock)
    /\ cyc' = [cyc EXCEPT !.of[p].pc = exit_of(cyc.of[p])]
    /\ UNCHANGED <<tree, now, live, dl, pub>>

\* Time passes while the lock file exists.
LockAges ==
    /\ lock.exists
    /\ lock.age < MaxLockSteps * LockStep
    /\ lock' = [lock EXCEPT !.age = @ + LockStep,
                            !.overrun = @ \/ lock.age + LockStep > LockTimeout]
    /\ UNCHANGED <<tree, now, live, cyc, dl, pub>>

CycleNext ==
    \/ \E p \in Procs : BuildImageSet(p)
    \/ \E p \in Procs : LiveBuilds(p)
    \/ \E p \in Procs : Stage(p)
    \/ \E p \in Procs : PublishStep(p)
    \/ \E p \in Procs : PurgeStep(p)
    \/ \E p \in Procs : Escape(p)
    \/ \E p \in Procs : Release(p)
    \/ LockAges
    \/ MarkCurrentTrigger

----------------------------------------------------------------------------
(* download_live_filesystems as an action.                                 *)

\* The dicts of builds over the architectures, in every order of the keys.
BuildDicts == {PyDict(keys) : keys \in UNION {Orders(S) : S \in SUBSET Arches}}

\* download_live_filesystems(config, builds)
Download ==
    /\ \E builds \in BuildDicts, fails \in FetchOutcomes :
         dl' = download_live_filesystems(dl.dir, builds, fails)
    /\ UNCHANGED <<tree, now, live, lock, cyc, pub>>

\* Other code works in the staging directory between two downloads:
\* build_ubuntu_defaults_locale renames the entries and writes .list files.
ScratchChanges ==
    /\ \E f \in StageFiles :
         dl' = [dl EXCEPT !.dir = IF f \in @ THEN @ \ {f} ELSE @ \cup {f}]
    /\ UNCHANGED <<tree, now, live, lock, cyc, pub>>

DownloadNext == Download \/ ScratchChanges

----------------------------------------------------------------------------
(* The specifications.                                                     *)

\* The operations on the publish tree, in any order.
Init ==
    /\ TreeInit /\ live = LiveOff /\ lock = NoLock /\ cyc = CycOff
    /\ dl = DlOff /\ pub = PubOff
Spec == Init /\ [][TreeNext]_vars
SpecCurrent == Init /\ [][CurrentNext]_vars

\* The calls of publish(date), one a day at most, statement by statement.
SpecPublish == Init /\ [][PublishNext]_vars

\* One call of run_live_builds, for every configuration.
InitLive ==
    /\ TreeInit /\ LiveInit /\ lock = NoLock /\ cyc = CycOff
    /\ dl = DlOff /\ pub = PubOff
SpecLive == InitLive /\ [][LiveNext]_vars

\* The same, with run_live_builds as a process that keeps running: each
\* step of its two loops is taken once it can be. Nothing is assumed of the
\* builds, nor of Launchpad fetching a log.
SpecLiveFair ==
    /\ InitLive /\ [][LiveNext]_vars
    /\ WF_vars(Dispatch) /\ WF_vars(Poll) /\ WF_vars(Sleep) /\ WF_vars(Finish)

\* The processes that run build_image_set and the mark-current trigger,
\* for cycles that neither build nor download live filesystems.
InitCycle ==
    /\ TreeInit /\ live = LiveOff /\ lock = NoLock /\ dl = DlOff /\ pub = PubOff
    /\ cyc = [CycOff EXCEPT
                 !.options = {[live |-> FALSE, download |-> FALSE]}]
SpecCycle == InitCycle /\ [][CycleNext]_vars

\* One process that runs build_image_set, with every option, and the
\* mark-current trigger; the other process makes no call.
InitBuild ==
    /\ TreeInit /\ live = LiveOff /\ lock = NoLock /\ dl = DlOff /\ pub = PubOff
    /\ cyc = [CycOff EXCEPT !.of["p2"].pc = "absent"]
SpecBuild == InitBuild /\ [][CycleNext]_vars

\* Calls of download_live_filesystems, one after the other, for every dict
\* of builds and every outcome of the fetches.
SpecDownload == Init /\ [][DownloadNext]_vars

----------------------------------------------------------------------------
(* Properties of the publish tree, checked under Spec and SpecCurrent.     *)

\* The generation a pointer names: the target of 'pending', of a pure
\* 'current', of 'manual', or of a per-file symlink of a mixed 'current'.
Pointed(t, d) ==
    \/ t.pending = d
    \/ t.manual = d
    \/ t.kind = "link" /\ t.target = d
    \/ t.kind = "dir" /\ \E f \in Files : t.links[f] = d

\* C1: purge never deletes a generation directory that is the target of
\* 'pending', of a pure 'current', of 'manual' or of a per-file symlink of a
\* mixed 'current', whatever the tree and under the age policy as under the
\* count policy.
C1_PurgeKeepsReferenced ==
    \A days, count \in LookedUp :
        \A d \in tree.dirs :
            Pointed(tree, d) => d \in purge(tree, days, count, now, FALSE).dirs

\* The 'manual' symlink points at a generation that a purge finds outside
\* its policy, and spares.
C1_Witness ==
    \E days, count \in LookedUp :
        \E d \in purge(tree, days, count, now, FALSE).dirs :
            /\ ~purge_raises(days, count)
            /\ ~within_policy(tree, d, days, count, now)
            /\ tree.manual = d /\ tree.pending # d
            /\ ~(tree.kind = "link" /\ tree.target = d)

\* C2: every symlink of a mixed 'current' directory resolves to a file that
\* exists in a generation directory that exists.
C2_MixedLinksResolve ==
    tree.kind = "dir" =>
        \A f \in Files :
            tree.links[f] # NoDate =>
                /\ tree.links[f] \in tree.dirs
                /\ f \in tree.files[tree.links[f]]

\* A mixed 'current' links to the image and the .list of a generation that
\* a purge finds outside its policy, and spares.
C2_Witness ==
    /\ tree.kind = "dir"
    /\ \E days, count \in LookedUp :
         \E d \in purge(tree, days, count, now, FALSE).dirs :
            /\ ~purge_raises(days, count)
            /\ ~within_policy(tree, d, days, count, now)
            /\ tree.pending # d
            /\ \E f, g \in Files :
                 /\ f.ext = "iso" /\ g.ext = "list"
                 /\ tree.links[f] = d /\ tree.links[g] = d

\* C3: mark_current is idempotent: a second mark_current(D, A) leaves the
\* tree (the form of 'current', its targets, every .marked_good) as the
\* first one left it.
C3_MarkCurrentIdempotent ==
    \A date \in Dates, arches \in SUBSET Arches :
        LET once == mark_current(tree, date, arches)
        IN  mark_current(once, date, arches) = once

\* mark_current has run and left a mixed 'current' and a .marked_good.
C3_Witness ==
    /\ tree.kind = "dir"
    /\ \E f \in Files : tree.links[f] # NoDate
    /\ \E d \in Dates, f \in Files : tree.marked[d][f] > 0

\* The image of an architecture.
ImageOf(arch) == [arch |-> arch, ext |-> "iso"]

\* The precondition of C7: every requested architecture has its image at
\* date, and date is the only date of the updated map.
OnlyDate(t, date, arches) ==
    /\ date \in t.dirs
    /\ arches # {}
    /\ \A a \in arches : ImageOf(a) \in t.files[date]
    /\ MapDates(updated_map(t, date, arches)) = {date}

IsPure(t, date) == t.kind = "link" /\ t.target = date /\ t.links = NoLinks

\* C7 as stated: under OnlyDate, mark_current leaves 'current' a single
\* symlink to date.
C7_AsStated ==
    \A date \in Dates, arches \in SUBSET Arches :
        OnlyDate(tree, date, arches) =>
            IsPure(mark_current(tree, date, arches), date)

\* C7, amended: under OnlyDate, and when the updated map holds every image
\* published at date, mark_current leaves 'current' a single symlink to
\* date and no mixed directory.
C7_CollapsesWhenComplete ==
    \A date \in Dates, arches \in SUBSET Arches :
        (/\ OnlyDate(tree, date, arches)
         /\ MapKeys(updated_map(tree, date, arches)) =
                {f \in tree.files[date] : f.ext = "iso"})
        => IsPure(mark_current(tree, date, arches), date)

\* 'current' is a symlink to a generation while another generation holds a
\* .marked_good line: 'current' referenced it before mark_current collapsed.
C7_Witness ==
    /\ tree.kind = "link"
    /\ tree.target \in tree.dirs
    /\ \E d \in tree.dirs \ {tree.target}, f \in Files : tree.marked[d][f] > 0

\* The symlink the updated map implies for an entry: the date its image
\* maps to, when that generation holds the entry.
Implied(t, existing, e) ==
    LET image == ImageOf(e.arch) IN
    IF existing[image] # NoDate /\ e \in listdir_force(t, existing[image])
    THEN existing[image] ELSE NoDate

\* C8: when the updated map holds two dates, mark_current leaves 'current' a
\* directory whose symlinks are exactly those the map implies.
C8_MixedExactlyImplied ==
    \A date \in Dates, arches \in SUBSET Arches :
        LET existing == updated_map(tree, date, arches)
            after == mark_current(tree, date, arches)
        IN  (date \in tree.dirs /\ Cardinality(MapDates(existing)) >= 2) =>
                /\ after.kind = "dir"
                /\ \A e \in Files : after.links[e] = Implied(tree, existing, e)

\* mark_current has left in a mixed 'current' a link to the .list of one
\* generation beside a link to the image of another.
C8_StaleLink ==
    /\ tree.kind = "dir"
    /\ \E e \in Files :
          /\ e.ext = "list"
          /\ tree.links[e] # NoDate
          /\ tree.links[ImageOf(e.arch)] # NoDate
          /\ tree.links[e] # tree.links[ImageOf(e.arch)]

\* C14: under an age policy of N days alone, what is left after purge is
\* exactly the generations dated on or after the cut-off, today minus N
\* days, and the older ones that a pointer names: the generations removed
\* are exactly those strictly older than the cut-off that no pointer names.
C14_AgePolicy ==
    \A days \in 1..MaxPurge, count \in {None, 0} :
        LET after == purge(tree, days, count, now, FALSE)
            cutoff == now - days
        IN  /\ after.dirs =
                  {d \in tree.dirs : d >= cutoff \/ Pointed(tree, d)}
            /\ tree.dirs \ after.dirs =
                  {d \in tree.dirs : d < cutoff /\ ~Pointed(tree, d)}

\* An age policy removes a generation older than its cut-off and keeps one
\* dated on the cut-off that no pointer names.
C14_Witness ==
    \E days \in 1..MaxPurge :
        LET after == purge(tree, days, None, now, FALSE) IN
        \E d, e \in tree.dirs :
            /\ d \notin after.dirs
            /\ e \in after.dirs /\ e = now - days /\ ~Pointed(tree, e)

\* The generations newer than d, d included.
Newest(t, d) == {e \in t.dirs : e >= d}

\* C15: under a count policy of N alone, what is left after purge is
\* exactly the N newest generations, whatever their age, and the older ones
\* that a pointer names; with no pointer and more than N generations,
\* exactly the N newest are left.
C15_CountPolicy ==
    \A count \in 1..MaxPurge, days \in {None, 0} :
        LET after == purge(tree, days, count, now, FALSE)
            kept == {d \in tree.dirs : Cardinality(Newest(tree, d)) <= count}
        IN  /\ after.dirs = kept \cup {d \in tree.dirs : Pointed(tree, d)}
            /\ ((\A d \in tree.dirs : ~Pointed(tree, d))
                  /\ Cardinality(tree.dirs) > count)
               => (after.dirs = kept /\ Cardinality(after.dirs) = count)

\* A count policy of N removes the oldest of more than N generations and
\* keeps a newest one that is not of today and that no pointer names.
C15_Witness ==
    \E count \in 1..MaxPurge :
        LET after == purge(tree, None, count, now, FALSE) IN
        /\ Cardinality(tree.dirs) > count
        /\ \E d \in tree.dirs : d \notin after.dirs
        /\ \E e \in after.dirs : ~Pointed(tree, e) /\ e < now

\* A policy resolves from a table: the first of the keys project,
\* project/image_type, image_type that has a line gives a non-zero value.
Resolves(table) ==
    \/ table["project"] \in 1..MaxPurge
    \/ /\ table["project"] = None
       /\ table["project/image_type"] \in 1..MaxPurge
    \/ /\ table["project"] = None
       /\ table["project/image_type"] = None
       /\ table["image_type"] \in 1..MaxPurge

\* purge raises exactly when both tables resolve.
RaisesIffBothResolve ==
    \A daysTable, countTable \in PurgeTables :
        purge_raises(purge_lookup(daysTable), purge_lookup(countTable))
            <=> (Resolves(daysTable) /\ Resolves(countTable))

C16_NoPolicyNoPurge ==
    /\ \A table \in PurgeTables :
          ~Resolves(table) <=> ~truthy(purge_lookup(table))
    /\ \A days, count \in LookedUp :
          (~truthy(days) /\ ~truthy(count)) =>
              purge(tree, days, count, now, FALSE) = tree

\* The count table has 0 for the project and a count for the image type on
\* a tree from which that count would remove a generation: the lookup stops
\* at the 0 and purge removes nothing.
C16_Witness ==
    \E table \in PurgeTables :
        /\ table["project"] = 0
        /\ table["image_type"] \in 1..MaxPurge
        /\ purge(tree, None, purge_lookup(table), now, FALSE) = tree
        /\ purge(tree, None, table["image_type"], now, FALSE) # tree

----------------------------------------------------------------------------
(* Properties of publish(date) statement by statement, checked under       *)
(* SpecPublish.                                                            *)

\* What 'current' is: a symlink and its target, or a directory of links.
Current(t) == <<t.kind, t.target, t.links>>

----------------------------------------------------------------------------
(* Further properties of publish and mark_current, checked under Spec and  *)
(* SpecCurrent.                                                            *)

\* C25: a publish(date) that finds no image for any architecture and no
\* source image leaves 'pending' and 'current' as they were, and every
\* generation they name with the files it had; what it leaves behind is
\* the directory of the new date.
C25_NothingPublishedNoPointerMoves ==
    \A arches \in SUBSET Arches \ {{}}, triggers \in SUBSET Arches,
       nocopy \in BOOLEAN :
        (now \in Dates /\ now \notin tree.dirs) =>
            LET post == publish(tree, now, arches, {}, {}, FALSE, triggers,
                                nocopy)
            IN  /\ post.pending = tree.pending
                /\ Current(post) = Current(tree)
                /\ post.manual = tree.manual
                /\ post.dirs = tree.dirs \cup {now}
                /\ \A d \in tree.dirs : post.files[d] = tree.files[d]

\* 'pending' and 'current' name an earlier generation, today's build id is
\* new, and a publish for both architectures that finds no image would
\* carry over and unlink the files of the earlier one.
C25_Witness ==
    /\ now \in Dates /\ now \notin tree.dirs
    /\ tree.pending # NoDate /\ tree.pending < now
    /\ tree.kind = "link" /\ tree.target = tree.pending
    /\ tree.files[tree.pending] # {}
    /\ publish(tree, now, Arches, {}, {}, FALSE, {}, FALSE).files[now] = {}

\* The generation a name resolves to through 'current': the target of the
\* symlink when it holds the name, or the target of the name's own symlink
\* in a mixed directory; NoDate when 'current' has no such name.
CurrentDate(t, e) ==
    CASE t.kind = "link" ->
            IF e \in listdir_force(t, t.target) THEN t.target ELSE NoDate
      [] t.kind = "dir" -> t.links[e]
      [] OTHER -> NoDate

\* The inputs of a publish of today's build id, as the action takes them.
PublishInputs ==
    {in \in [arches : SUBSET Arches \ {{}}, built : SUBSET Arches,
             lists : SUBSET ListArches, triggers : SUBSET Arches,
             source : BOOLEAN, nocopy : BOOLEAN] :
        in.built \subseteq in.arches /\ in.lists \subseteq in.built}

\* C26: publish(date) leaves every file of a trigger-controlled
\* architecture resolving through 'current' to the generation it resolved
\* to before, and its image at the same date in the map of mark_current;
\* when every architecture of the request is trigger-controlled, 'current'
\* is not touched.
C26_TriggersHoldCurrent ==
    \A in \in PublishInputs :
        (now \in Dates /\ now \notin tree.dirs) =>
            LET post == publish(tree, now, in.arches, in.built, in.lists,
                                in.source, in.triggers, in.nocopy)
            IN  /\ \A e \in Files :
                      e.arch \in in.triggers =>
                          /\ CurrentDate(post, e) = CurrentDate(tree, e)
                          /\ existing_map(post)[e] = existing_map(tree)[e]
                /\ in.arches \subseteq in.triggers =>
                      Current(post) = Current(tree)

\* 'current' is a symlink to an earlier generation that holds both images;
\* a publish of both architectures with i386 trigger-controlled turns it
\* into a mixed directory in which amd64 has moved on and i386 has not.
C26_Witness ==
    /\ now \in Dates /\ now \notin tree.dirs
    /\ tree.kind = "link" /\ tree.target \in tree.dirs
    /\ \A a \in Arches : ImageOf(a) \in tree.files[tree.target]
    /\ LET post == publish(tree, now, Arches, Arches, {}, FALSE, {"i386"},
                           FALSE)
       IN  /\ post.kind = "dir"
           /\ post.links[ImageOf("amd64")] = now
           /\ post.links[ImageOf("i386")] = tree.target

\* C27: mark_current(date, arches) leaves every image of 'current' whose
\* architecture is not requested at the generation it had: in the map that
\* mark_current reads from 'current', and as the generation the image's
\* name resolves to, whether 'current' ends as a symlink or as a mixed
\* directory.
C27_OtherArchesKeepDate ==
    \A date \in Dates, arches \in SUBSET Arches :
        LET post == mark_current(tree, date, arches) IN
        \A a \in Arches \ arches :
            existing_map(tree)[ImageOf(a)] # NoDate =>
                /\ existing_map(post)[ImageOf(a)] =
                      existing_map(tree)[ImageOf(a)]
                /\ CurrentDate(post, ImageOf(a)) =
                      CurrentDate(tree, ImageOf(a))

\* 'current' is a mixed directory with the images of two generations, and
\* mark_current of the newer one for the architecture that lags behind
\* collapses it to a symlink, with the other image where it was.
C27_Witness ==
    /\ tree.kind = "dir"
    /\ \E d \in tree.dirs, a, b \in Arches :
          /\ a # b
          /\ tree.links[ImageOf(a)] = d
          /\ tree.links[ImageOf(b)] \notin {NoDate, d}
          /\ IsPure(mark_current(tree, d, {b}), d)

----------------------------------------------------------------------------
(* Properties of run_live_builds, checked under SpecLive.                  *)

\* The architectures whose build ended in success: a local process that
\* exited with status 0, a Launchpad build that is "Successfully built".
Succeeded(l) ==
    {a \in Range(l.arches) :
        \/ l.proc[a] = "exit0"
        \/ l.lp[a].buildstate = "Successfully built"}

Watched(l) == Range(l.builds) \cup {item.arch : item \in Range(l.lp_builds)}

\* The build of an architecture is over: the process has exited, or the
\* Launchpad build has left the states in which it is in progress.
Terminal(l, a) ==
    \/ l.proc[a] \in {"exit0", "exit1"}
    \/ l.lp[a].buildstate \in {"Successfully built", "Failed to build"}

ItemsOf(l, a) == {item \in Range(l.lp_builds) : item.arch = a}

\* A Launchpad build is over without a log, and the time to wait for the
\* log of the entry of lp_builds has not run out.
AwaitsLog(l, item) ==
    /\ l.lp[item.arch].buildstate \notin InProgress
    /\ ~l.lp[item.arch].build_log_url
    /\ (item.log_timeout = None \/ l.clock < item.log_timeout)

\* C20 as stated: a pass of the poll loop keeps watching a Launchpad build
\* that was successfully built and has no log yet, as long as the time to
\* wait for the log has not run out.
C20_AsStated ==
    [][Poll =>
          \A item \in Range(live.lp_builds) :
              (/\ live.lp[item.arch].buildstate = "Successfully built"
               /\ AwaitsLog(live, item))
              => ItemsOf(live', item.arch) # {}
      ]_vars

\* C20: the wait for the log is for the Launchpad builds that are over
\* without success: a pass of the poll loop keeps such a build without a
\* log, the first time with a timeout LogGrace seconds ahead and then with
\* the same timeout, until the log is there or the timeout has passed, and
\* then it is classified as failed; a build that was successfully built is
\* classified as a success by the first pass that sees it, with or without
\* a log.
C20_LogGraceForFailures ==
    [][Poll =>
          \A item \in Range(live.lp_builds) :
              LET a == item.arch IN
              CASE live.lp[a].buildstate \in InProgress ->
                      ItemsOf(live', a) = {item}
                [] live.lp[a].buildstate = "Successfully built" ->
                      /\ ItemsOf(live', a) = {}
                      /\ a \in Range(live'.successful_builds)
                      /\ live'.notified[a] = 0
                [] OTHER ->
                      IF AwaitsLog(live, item)
                      THEN /\ ItemsOf(live', a) =
                                 {[item EXCEPT !.log_timeout =
                                     IF @ = None THEN live.clock + LogGrace
                                     ELSE @]}
                           /\ live'.finished[a] = 0
                      ELSE /\ ItemsOf(live', a) = {}
                           /\ a \notin Range(live'.successful_builds)
                           /\ live'.notified[a] = 1
      ]_vars

\* A build that was successfully built and has no log is among the
\* successes, while the poll loop still waits for the log of a build that
\* failed.
C20_Witness ==
    \E a, b \in Arches :
        /\ live.lp[a].buildstate = "Successfully built"
        /\ ~live.lp[a].build_log_url
        /\ a \in Range(live.successful_builds)
        /\ live.lp[b].buildstate = "Failed to build"
        /\ ~live.lp[b].build_log_url
        /\ \E item \in ItemsOf(live, b) : item.log_timeout # None

\* The Launchpad architectures the first loop has dealt with.
DispatchedFarm(l) == (Range(l.arches) \ Range(l.todo)) \cap l.farm

\* C22 as stated: with CDIMAGE_REUSE_BUILD the first loop goes through
\* every Launchpad architecture, reusing the build of the history that
\* matches and requesting a build where there is none.
C22_AsStated ==
    live.reuse =>
        /\ live.pc # "Exception"
        /\ \A a \in DispatchedFarm(live) :
              a \in live.requested <=> a \notin live.history

\* C22: with CDIMAGE_REUSE_BUILD no build is ever requested: a Launchpad
\* architecture with a successful build in the history gets that build to
\* watch, and the first one without raises Exception out of
\* run_live_builds, which starts nothing further. Without
\* CDIMAGE_REUSE_BUILD a build is requested for every Launchpad
\* architecture, whatever the history.
C22_ReuseOrRaise ==
    IF live.reuse
    THEN /\ live.requested = {}
         /\ DispatchedFarm(live) \subseteq live.history
         /\ \A a \in DispatchedFarm(live) :
               a \in Watched(live) \/ live.finished[a] = 1
         /\ live.pc = "Exception" =>
               (/\ live.todo # <<>>
                /\ Head(live.todo) \in live.farm \ live.history)
    ELSE /\ live.requested = DispatchedFarm(live)
         /\ live.pc # "Exception"

\* With CDIMAGE_REUSE_BUILD the first architecture has got the build of
\* the history and the second, which has none, has raised.
C22_Witness ==
    /\ live.reuse
    /\ live.pc = "Exception"
    /\ Len(live.arches) = 2 /\ Len(live.todo) = 1
    /\ live.arches[1] \in live.history
    /\ live.lp[live.arches[1]].buildstate = "Successfully built"
    /\ live.requested = {}

\* The entries of lp_builds with a log_timeout: the builds held for want
\* of a log.
Held(l) == {item \in Range(l.lp_builds) : item.log_timeout # None}

\* C28: a Launchpad build is held for its log only when it is over without
\* success, from a poll that found it so with no log; its log_timeout is
\* LogGrace seconds after that poll and stays the same as long as it is
\* held; a poll lets it go exactly when the log is there or the time is at
\* or past log_timeout; and a build let go is classified as failed, with
\* one failure notification, and is not among the successes.
C28_FailedHeldForLog ==
    /\ [](\A item \in Held(live) :
             /\ live.lp[item.arch].buildstate \notin
                    InProgress \cup {"Successfully built"}
             /\ item.log_timeout <= live.clock + LogGrace
             /\ live.finished[item.arch] = 0)
    /\ [][\A item \in Held(live) :
             \/ item \in Held(live')
             \/ /\ ItemsOf(live', item.arch) = {}
                /\ \/ live.lp[item.arch].build_log_url
                   \/ live.clock >= item.log_timeout
                /\ live'.notified[item.arch] = 1
                /\ item.arch \notin Range(live'.successful_builds)]_vars
    /\ [][Poll =>
             /\ \A item \in Held(live) :
                   (/\ ~live.lp[item.arch].build_log_url
                    /\ live.clock < item.log_timeout)
                   => item \in Held(live')
             /\ \A item \in Held(live') \ Held(live) :
                   /\ item.log_timeout = live.clock + LogGrace
                   /\ ~live.lp[item.arch].build_log_url]_vars

\* A build that failed has been held through the whole wait, the log has
\* not come, and the time is at its log_timeout: the next poll lets it go.
C28_Witness ==
    \E item \in Held(live) :
        /\ live.pc = "while"
        /\ ~live.lp[item.arch].build_log_url
        /\ live.clock >= item.log_timeout
        /\ item.log_timeout >= LogGrace

\* C29: run_live_builds for no architecture starts and requests nothing,
\* watches nothing, does not poll or sleep, and the one step it takes
\* raises LiveBuildsFailed.
C29_EmptyRequestRaises ==
    /\ [](live.arches = <<>> =>
             /\ live.pc \in {"while", "LiveBuildsFailed"}
             /\ Watched(live) = {}
             /\ live.requested = {}
             /\ \A a \in Arches :
                   live.proc[a] = "none" /\ live.lp[a] = NoBuild
             /\ live.clock = 0
             /\ live.successful_builds = <<>>)
    /\ [][(live.arches = <<>> /\ live' # live) =>
             (Finish /\ live'.pc = "LiveBuildsFailed")]_vars

\* run_live_builds for no architecture has raised LiveBuildsFailed.
C29_Witness ==
    /\ live.arches = <<>>
    /\ live.pc = "LiveBuildsFailed"

\* run_live_builds has returned or raised.
LiveOver == live.pc \in {"returned", "LiveBuildsFailed", "Exception"}

\* Every build that the poll loop watches is over, early enough for the
\* MaxSleeps sleeps of the model to cover a whole wait for a log.
BuildsOver ==
    /\ live.pc \in {"while", "sleep"}
    /\ \A a \in Watched(live) : Terminal(live, a)
    /\ live.clock + PollInterval + LogGrace <= MaxSleeps * PollInterval

\* C21: once every build that the poll loop of run_live_builds watches is
\* over, run_live_builds returns or raises, whether or not a log ever
\* comes; it ends with nothing left in builds and lp_builds; and a build
\* kept for want of a log is in lp_builds for less than a poll interval
\* past its log_timeout.
C21_PollLoopTerminates ==
    /\ BuildsOver ~> LiveOver
    /\ [](live.pc \in {"returned", "LiveBuildsFailed"} =>
             live.builds = <<>> /\ live.lp_builds = <<>>)
    /\ [](\A item \in Range(live.lp_builds) :
             item.log_timeout # None =>
                live.clock < item.log_timeout + PollInterval)

\* run_live_builds has raised after the whole wait for the log of a build
\* that failed, and the log never came.
C21_Witness ==
    /\ live.pc = "LiveBuildsFailed"
    /\ live.clock >= LogGrace
    /\ \E a \in Range(live.arches) :
          /\ live.lp[a].buildstate = "Failed to build"
          /\ ~live.lp[a].build_log_url
          /\ live.notified[a] = 1

----------------------------------------------------------------------------
(* Properties of download_live_filesystems, checked under SpecDownload.    *)

\* The artifacts of an architecture among a set of staged files.
ArtifactsOf(files, a) == {f.n : f \in {g \in files : g.arch = a}}

\* C17: download_live_filesystems keeps a download failure to its
\* architecture: the architecture whose fetch raises gets no further
\* download, exactly one download-failure notification, and no entry in the
\* map returned; every other architecture of builds is downloaded in full
\* and returned, in the order of builds; and the call does not raise.
C17_DownloadFailuresIsolated ==
    \A builds \in BuildDicts, fails \in FetchOutcomes :
        LET d == download_live_filesystems(dl.dir, builds, fails)
            asked == Range(builds.keys)
        IN  /\ d.error = "none"
            /\ d.successful_builds =
                  SelectSeq(builds.keys, LAMBDA a : fails[a] = 0)
            /\ \A a \in asked :
                  IF fails[a] = 0
                  THEN /\ ArtifactsOf(d.fetched, a) = 1..MaxFiles
                       /\ d.notified[a] = 0
                  ELSE /\ ArtifactsOf(d.fetched, a) = 1..(fails[a] - 1)
                       /\ d.notified[a] = 1
                       /\ a \notin Range(d.successful_builds)
            /\ \A a \in Arches \ asked :
                  /\ ArtifactsOf(d.fetched, a) = {}
                  /\ d.notified[a] = 0

\* C23: whatever the staging directory held, after
\* download_live_filesystems it holds the files that this call wrote and
\* no other, also when the call raises.
C23_StagingWipedAndRebuilt ==
    \A builds \in BuildDicts \cup {PyNone, PyStr("i386")},
       fails \in FetchOutcomes :
        LET d == download_live_filesystems(dl.dir, builds, fails)
        IN  /\ d.dir = d.fetched
            /\ \A f \in d.dir :
                  f.n \in 1..MaxFiles /\ f.arch \in Range(d.asked)

\* The staging directory holds a file of another origin and an artifact of
\* an earlier download for i386, and a download for amd64 alone leaves
\* neither.
C23_Witness ==
    /\ [arch |-> "amd64", n |-> 0] \in dl.dir
    /\ [arch |-> "i386", n |-> 1] \in dl.dir
    /\ LET d == download_live_filesystems(
                    dl.dir, PyDict(<<"amd64">>), [a \in Arches |-> 0])
       IN  d.dir = {[arch |-> "amd64", n |-> n] : n \in 1..MaxFiles}

\* A call for two architectures has returned the second: the download of
\* the first failed and was notified, the second was fetched in full.
C17_Witness ==
    /\ Len(dl.asked) = 2
    /\ dl.error = "none"
    /\ dl.notified[dl.asked[1]] = 1
    /\ dl.successful_builds = <<dl.asked[2]>>
    /\ ArtifactsOf(dl.fetched, dl.asked[2]) = 1..MaxFiles

----------------------------------------------------------------------------
(* Properties of the locked cycle, checked under SpecCycle.                *)

\* At most one process is inside the locked cycle, and a process that found
\* the lock file when it called lockfile has raised.
OneCycleFailFast ==
    /\ Cardinality({p \in Procs : Inside(p)}) <= 1
    /\ \A p \in Procs : cyc.of[p].held => cyc.of[p].pc = "raised"

\* C5 as stated: in every interleaving at most one process is inside the
\* locked cycle, and an attempt made while the lock is held fails at once.
C5_AsStated == OneCycleFailFast

\* C5, amended: as long as no lock file has grown older than the 7200
\* seconds of lockfile -l, at most one process is inside the locked cycle
\* and an attempt made while the lock is held fails at once.
C5_OneCycleUnlessStale == ~lock.overrun => OneCycleFailFast

\* A process is inside the cycle and the other has raised on the lock.
C5_Witness ==
    /\ ~lock.overrun
    /\ \E p, q \in Procs :
         /\ Inside(p)
         /\ cyc.of[q].pc = "raised" /\ cyc.of[q].held

\* The ways build_image_set ends once it has been inside the lock.
Exits == {"returned", "interrupted", "killed"}

\* C12: build_image_set releases the lock on every way out of the locked
\* cycle (return, an exception that goes through, KeyboardInterrupt
\* included, SIGTERM or SIGQUIT): in the step in which a process leaves,
\* the lock file goes, and it is not there when the step is over.
C12_LockReleasedOnExit ==
    [][\A p \in Procs :
          (Inside(p) /\ cyc'.of[p].pc \in Exits) => ~lock'.exists]_vars

\* A signal has ended a process inside the cycle and no lock file is left.
C12_Witness ==
    \E p \in Procs :
        /\ cyc.of[p].pc = "killed"
        /\ cyc.of[p].error = "SignalExit"
        /\ ~cyc.of[p].held
        /\ ~lock.exists

\* C13: when the lock cannot be acquired, lock_build_image_set raises and
\* that is the end of the call (no retry); nothing of the cycle has run (no
\* build id, no build, no notification, no result), the publish tree is as
\* it was, and the lock file of the other cycle stays in place.
C13_ContentionIsFatal ==
    [][\A p \in Procs :
          /\ (/\ cyc.of[p].pc = "start"
              /\ lockfile_fails(lock)
              /\ cyc'.of[p] # cyc.of[p])
             => /\ cyc'.of[p] =
                      [CycStart EXCEPT !.pc = "raised", !.held = TRUE]
                /\ lock' = lock
                /\ tree' = tree
                /\ cyc'.serial = cyc.serial
          /\ cyc.of[p].pc = "raised" => cyc'.of[p] = cyc.of[p]]_vars

\* A process has raised on the lock of a cycle that has published and is
\* about to purge; the lock file is still that cycle's.
C13_Witness ==
    \E p, q \in Procs :
        /\ cyc.of[q].pc = "raised"
        /\ cyc.of[q].date = NoDate
        /\ cyc.of[p].pc = "purge"
        /\ lock.exists /\ lock.owner = p

\* C30: as long as no lock file has grown older than the 7200 seconds of
\* lockfile -l, the lock file of a process is there, and is its own, from
\* the lockfile call to the finally clause, and the file that the finally
\* clause unlinks is the one that process created.
C30_LockHeldUntilRelease ==
    /\ [](~lock.overrun =>
             \A p \in Procs :
                 Inside(p) => lock.exists /\ lock.owner = p)
    /\ [][\A p \in Procs :
             (~lock.overrun /\ Release(p)) =>
                 /\ lock.exists /\ lock.owner = p
                 /\ ~lock'.exists]_vars

\* A process is at the finally clause with its own lock file, which has
\* aged within the limit, after the other process has raised on it.
C30_Witness ==
    /\ ~lock.overrun
    /\ \E p, q \in Procs :
         /\ cyc.of[p].pc = "release"
         /\ lock.exists /\ lock.owner = p /\ lock.age > 0
         /\ cyc.of[q].pc = "raised"

\* The process p takes a step of its cycle as the holder of the lock.
StepsUnderLock(p) ==
    /\ cyc'.of[p] # cyc.of[p]
    /\ lock.exists /\ lock.owner = p

\* C6: the publish tree changes only in a step of a process that holds the
\* build-set lock of the target: publish, purge and mark_current, the
\* mark_current of Tree.mark_current_trigger included.
C6_AsStated ==
    [][tree' # tree => \E p \in Procs : StepsUnderLock(p)]_vars

----------------------------------------------------------------------------
(* Properties of one cycle in detail, checked under SpecBuild.             *)

\* C18 as stated: the download step of a cycle whose live builds succeeded
\* does not end the cycle: it goes on to publish, the architectures whose
\* download failed are no longer among those the cycle publishes, and the
\* architectures downloaded still are.
C18_AsStated ==
    [][\A p \in Procs :
          (Stage(p) /\ cyc.of[p].download /\ cyc.of[p].successful # <<>>)
          => /\ dl'.error = "none"
             /\ cyc'.of[p].pc = "publish"
             /\ \A a \in Arches :
                   dl'.notified[a] > 0 => a \notin cyc'.of[p].ARCHES
             /\ Range(dl'.successful_builds) \subseteq cyc'.of[p].ARCHES
      ]_vars

\* The notify_failure calls and the result that "except Exception" gives a
\* cycle for the exception e.
Converted(c, e) ==
    /\ c.result = "False"
    /\ c.notified = IF e = "LiveBuildsFailed" THEN 0 ELSE 1
    /\ c.pc \in {"release", "returned"}

\* C19 as stated: every exception raised inside the cycle gives the result
\* False instead of going through, with one notify_failure unless it is
\* LiveBuildsFailed, and then none.
C19_AsStated ==
    \A p \in Procs :
        cyc.of[p].error # "none" => Converted(cyc.of[p], cyc.of[p].error)

\* C19: an exception of class Exception raised in the try block of
\* build_image_set_locked gives the result False, with one notify_failure
\* unless it is LiveBuildsFailed, and then none; KeyboardInterrupt and
\* SignalExit go through, with no result and no notification; and a cycle
\* in which nothing was raised has sent no notification.
C19_ExceptionsBecomeFalse ==
    \A p \in Procs :
        LET c == cyc.of[p] IN
        CASE c.error = "none" -> c.notified = 0 /\ c.result # "False"
          [] c.error \in Escaping ->
                /\ c.result = "none" /\ c.notified = 0
                /\ c.pc \in {"release", "interrupted", "killed"}
          [] OTHER -> Converted(c, c.error)

\* A cycle has returned False after run_live_builds raised LiveBuildsFailed,
\* and no notify_failure was sent.
C19_Witness ==
    \E p \in Procs :
        /\ cyc.of[p].pc = "returned"
        /\ cyc.of[p].error = "LiveBuildsFailed"
        /\ cyc.of[p].result = "False"
        /\ cyc.of[p].notified = 0

\* C10: when run_live_builds has returned a map that is not empty, the
\* cycle goes on (no exception is caught on the way to the publishing), and
\* the stages after the live builds run with exactly the architectures of
\* the map.
C10_AsStated ==
    \A p \in Procs :
        cyc.of[p].successful # <<>> =>
            /\ cyc.of[p].error \notin {"ValueError", "AttributeError"}
            /\ cyc.of[p].ARCHES = Range(cyc.of[p].successful)

====
